---- MODULE Spec2Model ----
(***************************************************************************)
(* A model of craft_planner.py: the State class, the compiled recipes      *)
(* (make_checker, make_effector), the goal checker, graph expansion, the   *)
(* heuristic and the time-boxed best-first loop of search.                 *)
(***************************************************************************)
EXTENDS Integers, Sequences, FiniteSets, TLC

\* ------------------------------------------------------------------ bounds
\* Largest number of loop iterations (pops) explored in one invocation.
MaxPops == 5
\* Largest value the elapsed wall-clock time takes.
MaxClock == 2
\* Largest time budget passed to search.
MaxLimit == 2

\* math.inf, as the heuristic returns it: larger than every finite cost.
inf == 1000000

\* ------------------------------------------------------- inputs (Crafting)
\* Crafting['Items']: the catalog, in its canonical order.
Catalog ==
  << "bench", "cart", "coal", "cobble", "furnace", "ingot", "iron_axe",
     "iron_pickaxe", "ore", "plank", "rail", "stick", "stone_axe",
     "stone_pickaxe", "wood", "wooden_axe", "wooden_pickaxe" >>

Items == { Catalog[k] : k \in DOMAIN Catalog }

\* Recipe(name, checker, effector, rule['Time']): the closures check and
\* effect are kept as the rule they close over.
Recipe(name, rule) == [name |-> name, rule |-> rule, cost |-> rule.Time]

\* Crafting['Recipes'] tables the search is run on, each in declared order.
RecipeSets ==
  << \* a wood economy: planks bought dear or crafted from punched wood
     << Recipe("buy plank", [Produces |-> [plank |-> 5], Time |-> 6]),
        Recipe("punch for wood", [Produces |-> [wood |-> 1], Time |-> 4]),
        Recipe("craft plank",
               [Consumes |-> [wood |-> 1], Produces |-> [plank |-> 4], Time |-> 1]),
        Recipe("craft bench",
               [Consumes |-> [plank |-> 4], Produces |-> [bench |-> 1], Time |-> 1]) >>,
     \* two recipes produce ore at different costs; only converters of stock
     << Recipe("mine ore", [Produces |-> [ore |-> 1], Time |-> 5]),
        Recipe("dig coal", [Produces |-> [coal |-> 1], Time |-> 1]),
        Recipe("trade coal for ore",
               [Consumes |-> [coal |-> 1], Produces |-> [ore |-> 1], Time |-> 1]),
        Recipe("smelt ore",
               [Consumes |-> [ore |-> 1], Produces |-> [ingot |-> 1], Time |-> 1]) >>,
     \* consuming recipes only: finitely many states are reachable
     << Recipe("craft plank",
               [Consumes |-> [wood |-> 1], Produces |-> [plank |-> 4], Time |-> 1]),
        Recipe("craft bench",
               [Consumes |-> [plank |-> 4], Produces |-> [bench |-> 1], Time |-> 1]),
        Recipe("wooden_axe for wood",
               [Requires |-> [wooden_axe |-> TRUE], Consumes |-> [plank |-> 1],
                Produces |-> [wood |-> 1], Time |-> 2]) >>,
     \* a cheap chain through an over-stocked state and a dear direct recipe
     << Recipe("gather wood", [Produces |-> [wood |-> 2], Time |-> 1]),
        Recipe("build bench",
               [Consumes |-> [wood |-> 2], Produces |-> [bench |-> 1, rail |-> 1],
                Time |-> 1]),
        Recipe("buy bench", [Produces |-> [bench |-> 1], Time |-> 5]) >> >>

\* Crafting['Initial'] overrides.
Initials ==
  << <<>>, [wood |-> 1], [wood |-> 3], [plank |-> 4, wooden_axe |-> 1] >>

\* Crafting['Goal'] maps.
GoalMaps ==
  << [plank |-> 4], [bench |-> 1], [ingot |-> 1], [cart |-> 1], <<>> >>

\* State({key: 0 for key in Items}); state.update(Initial)
MakeState(initial) ==
  [i \in Items |-> IF i \in DOMAIN initial THEN initial[i] ELSE 0]

\* ------------------------------------------------------------- State class
\* State.__key: tuple(self.items()), the (item, quantity) pairs in order.
key(s) == [k \in DOMAIN Catalog |-> << Catalog[k], s[Catalog[k]] >>]

\* State.__lt__: tuple comparison of the keys; every state has the same
\* items in the same order, so the first differing pair differs in quantity.
StateLt(a, b) ==
  LET ka == key(a)
      kb == key(b)
  IN  \E k \in DOMAIN Catalog :
         /\ \A j \in 1 .. (k - 1) : ka[j] = kb[j]
         /\ ka[k][2] < kb[k][2]

\* State.copy: a new State updated from self.
copy(s) == [i \in DOMAIN s |-> s[i]]

\* ------------------------------------------------------- recipe compilation
\* check without its Requires loop.
check_consumes_only(rule, s) ==
  "Consumes" \in DOMAIN rule =>
     \A item \in DOMAIN rule.Consumes : ~(s[item] < rule.Consumes[item])

\* make_checker(rule).check
check(rule, s) ==
  /\ "Consumes" \in DOMAIN rule =>
        \A item \in DOMAIN rule.Consumes : ~(s[item] < rule.Consumes[item])
  /\ "Requires" \in DOMAIN rule =>
        \A item \in DOMAIN rule.Requires : ~(s[item] = 0)

\* State.copy(state) where the State objects live on a heap h (a sequence of
\* objects, a reference being a position): a new object is allocated with the
\* items of h[ref], and its reference returned.
State_copy_alias(h, ref) == [heap |-> h, ref |-> ref]

State_copy(h, ref) == [heap |-> Append(h, copy(h[ref])), ref |-> Len(h) + 1]

\* The writes of effect with the Consumes amounts taken off the quantities of
\* the argument (object 1) instead of those of next_state.
effect_writes_from_argument(rule, h, ref) ==
  LET produced == [h EXCEPT ![ref] =
                     [i \in DOMAIN @ |->
                        IF i \in DOMAIN rule.Produces
                        THEN @[i] + rule.Produces[i] ELSE @[i]]]
  IN  IF "Consumes" \in DOMAIN rule
      THEN [produced EXCEPT ![ref] =
              [i \in DOMAIN @ |->
                 IF i \in DOMAIN rule.Consumes
                 THEN h[1][i] - rule.Consumes[i] ELSE @[i]]]
      ELSE produced

\* next_state[item] += value for every item of Produces, then
\* next_state[item] -= value for every item of Consumes (absent Consumes
\* skipped), written to the object at reference ref of heap h.
effect_writes(rule, h, ref) ==
  LET produced == [h EXCEPT ![ref] =
                     [i \in DOMAIN @ |->
                        IF i \in DOMAIN rule.Produces
                        THEN @[i] + rule.Produces[i] ELSE @[i]]]
  IN  IF "Consumes" \in DOMAIN rule
      THEN [produced EXCEPT ![ref] =
              [i \in DOMAIN @ |->
                 IF i \in DOMAIN rule.Consumes
                 THEN @[i] - rule.Consumes[i] ELSE @[i]]]
      ELSE produced

\* make_effector(rule).effect run on argument s, the only object of the heap
\* when it is called: next_state = State.copy(state), the writes to
\* next_state, return next_state.
effect_run(rule, s) ==
  LET c == State_copy(<< s >>, 1)
  IN  [heap |-> effect_writes(rule, c.heap, c.ref), ref |-> c.ref]

\* The State effect returns.
effect(rule, s) ==
  LET r == effect_run(rule, s) IN r.heap[r.ref]

\* The items of effect's argument object once effect has returned.
effect_leaves(rule, s) == effect_run(rule, s).heap[1]

\* is_goal with <= for <: a quantity equal to the minimum is refused.
is_goal_of_strict(g, s) == \A item \in DOMAIN g : ~(s[item] <= g[item])

\* make_goal_checker(goal).is_goal
is_goal_of(g, s) == \A item \in DOMAIN g : ~(s[item] < g[item])

\* ---------------------------------------------------------------- heuristic
tools ==
  << "furnace", "bench", "wooden_pickaxe", "wooden_axe", "stone_pickaxe",
     "stone_axe", "iron_pickaxe", "iron_axe" >>

materials_with_heuristic_value ==
  [coal |-> 1, cobble |-> 8, wood |-> 1, plank |-> 8, stick |-> 4,
   ore |-> 1, ingot |-> 6]

\* heuristic with >= for > in the materials loop: a material at its cap is
\* already refused.
heuristic_at_cap(s) ==
  IF \E t \in DOMAIN tools : s[tools[t]] > 1 THEN inf
  ELSE IF \E material \in DOMAIN materials_with_heuristic_value :
             s[material] >= materials_with_heuristic_value[material] THEN inf
  ELSE 0

heuristic(s) ==
  IF \E t \in DOMAIN tools : s[tools[t]] > 1 THEN inf
  ELSE IF \E material \in DOMAIN materials_with_heuristic_value :
             s[material] > materials_with_heuristic_value[material] THEN inf
  ELSE 0

\* float addition with math.inf absorbing.
Plus(a, b) == IF a = inf \/ b = inf THEN inf ELSE a + b

\* ------------------------------------------------------------ search state
VARIABLES
  all_recipes,  \* the recipe list graph() iterates over
  state,        \* search's start state
  goal,         \* the goal map is_goal was compiled from
  limit,        \* search's time budget
  clock,        \* time() - start_time
  pc,           \* "loop": at the while test; "done": search has ended;
                \* "idle": search is not invoked
  queue,        \* the heap of (priority, state, action) entries
  cost, prev, actions, visited, path,
  ret,          \* "pending", "path" (path returned), "None", "IndexError"
  pops,         \* history: the states popped, in order
  pushed,       \* history: the states pushed on the queue, in order
  fired,        \* history: the while test has failed in this invocation
  run,          \* 1 for the first invocation, 2 for the repeated one
  first,        \* history: how the first invocation ended
  call          \* "search" once search is invoked; else the last direct call
                \* of a compiled function, with its argument and result

vars ==
  << all_recipes, state, goal, limit, clock, pc, queue, cost, prev, actions,
     visited, path, ret, pops, pushed, fired, run, first, call >>

inputs == << all_recipes, state, goal, limit >>

None == "None"

is_goal(s) == is_goal_of(goal, s)

\* graph without the test of r.check: every recipe yields a triple.
graph_unchecked(s) ==
  [k \in DOMAIN all_recipes |->
     << all_recipes[k].name, effect(all_recipes[k].rule, s), all_recipes[k].cost >>]

\* graph(state): one (name, effect(state), cost) per recipe whose check holds,
\* in the order of all_recipes.
graph(s) ==
  LET valid == SelectSeq(all_recipes, LAMBDA r : check(r.rule, s))
  IN  [k \in DOMAIN valid |->
         << valid[k].name, effect(valid[k].rule, s), valid[k].cost >>]

\* The items of graph's argument object once every recipe from the k-th on
\* has been checked and, where valid, applied (lines 105-107).
RECURSIVE graph_leaves_from(_, _)
graph_leaves_from(s, k) ==
  IF k > Len(all_recipes) THEN s
  ELSE graph_leaves_from(IF check(all_recipes[k].rule, s)
                         THEN effect_leaves(all_recipes[k].rule, s)
                         ELSE s,
                         k + 1)

graph_leaves(s) == graph_leaves_from(s, 1)

InList(x, list) == \E k \in DOMAIN list : list[k] = x

\* Tuple comparison of two heap entries: priority, then state; entries equal
\* in both are left to the comparison of their actions.
EntryLt(a, b) ==
  IF a[1] # b[1] THEN a[1] < b[1]
  ELSE IF a[2] # b[2] THEN StateLt(a[2], b[2])
  ELSE FALSE

\* A queue popped first-in first-out, the priorities never compared.
heappop_fifo(q) == 1

\* heappop: the position of the smallest entry of the heap.
heappop(q) ==
  LET least == { i \in DOMAIN q : \A j \in DOMAIN q : ~EntryLt(q[j], q[i]) }
  IN  CHOOSE i \in least : \A j \in least : i <= j

Remove(q, i) == SubSeq(q, 1, i - 1) \o SubSeq(q, i + 1, Len(q))

\* The bookkeeping search creates when it is invoked on start state s.
Fresh(s) ==
  [queue |-> << << 0, s, None >> >>,
   cost |-> (s :> 0),
   prev |-> (s :> << >>),
   actions |-> (s :> None),
   visited |-> << s >>,
   pushed |-> << s >>]

\* Line 169 without its visited clause: a cheaper route re-admits a state.
AdmitsCheaper(b, node_state, new_cost) ==
  node_state \notin DOMAIN b.cost \/ new_cost < b.cost[node_state]

\* The test of line 169.
Admits(b, node_state, new_cost) ==
  /\ node_state \notin DOMAIN b.cost \/ new_cost < b.cost[node_state]
  /\ ~InList(node_state, b.visited)

\* Lines 170-175 with the neighbour recorded as its own predecessor.
AdmitSelfLinked(b, current_state, node_action, node_state, new_cost) ==
  LET priority == Plus(new_cost, heuristic(node_state))
  IN  [queue |-> Append(b.queue, << priority, node_state, node_action >>),
       cost |-> (node_state :> new_cost) @@ b.cost,
       prev |-> (node_state :> << node_state >>) @@ b.prev,
       actions |-> (node_state :> node_action) @@ b.actions,
       visited |-> Append(b.visited, node_state),
       pushed |-> Append(b.pushed, node_state)]

\* Lines 170-175: record the neighbour and push it.
Admit(b, current_state, node_action, node_state, new_cost) ==
  LET priority == Plus(new_cost, heuristic(node_state))
  IN  [queue |-> Append(b.queue, << priority, node_state, node_action >>),
       cost |-> (node_state :> new_cost) @@ b.cost,
       prev |-> (node_state :> << current_state >>) @@ b.prev,
       actions |-> (node_state :> node_action) @@ b.actions,
       visited |-> Append(b.visited, node_state),
       pushed |-> Append(b.pushed, node_state)]

\* The for loop of lines 167-175 over the neighbours nbrs[k..].
RECURSIVE Relax(_, _, _, _, _)
Relax(b, nbrs, k, current_cost, current_state) ==
  IF k > Len(nbrs) THEN b
  ELSE LET node_action == nbrs[k][1]
           node_state == nbrs[k][2]
           node_cost == nbrs[k][3]
           new_cost == Plus(current_cost, node_cost)
       IN  Relax(IF Admits(b, node_state, new_cost)
                 THEN Admit(b, current_state, node_action, node_state, new_cost)
                 ELSE b,
                 nbrs, k + 1, current_cost, current_state)

\* Lines 160-164: the popped pair, then the predecessors inserted in front.
RECURSIVE Backtrack(_, _)
Backtrack(current_back_node, p) ==
  IF current_back_node = << >> THEN p
  ELSE LET n == current_back_node[1]
       IN  Backtrack(prev[n], << << n, actions[n] >> >> \o p)

\* The popped pair alone, the predecessors never inserted.
BuildPathTail(current_state, current_action) ==
  << << current_state, current_action >> >>

BuildPath(current_state, current_action) ==
  Backtrack(prev[current_state], << << current_state, current_action >> >>)

\* --------------------------------------------------------------------- Init
Limits == (-1) .. MaxLimit

Init ==
  /\ \E k \in DOMAIN RecipeSets : all_recipes = RecipeSets[k]
  /\ \E k \in DOMAIN Initials : state = MakeState(Initials[k])
  /\ \E k \in DOMAIN GoalMaps : goal = GoalMaps[k]
  /\ limit \in Limits
  /\ clock = 0
  /\ pc = "loop"
  /\ queue = Fresh(state).queue
  /\ cost = Fresh(state).cost
  /\ prev = Fresh(state).prev
  /\ actions = Fresh(state).actions
  /\ visited = Fresh(state).visited
  /\ pushed = Fresh(state).pushed
  /\ path = << >>
  /\ ret = "pending"
  /\ pops = << >>
  /\ fired = FALSE
  /\ run = 1
  /\ first = [ret |-> "pending", path |-> << >>, pops |-> << >>, fired |-> FALSE]
  /\ call = [fn |-> "search"]

\* ------------------------------------------------------------------ actions
\* The wall clock advances.
Tick ==
  /\ pc = "loop"
  /\ clock < MaxClock
  /\ clock' = clock + 1
  /\ UNCHANGED << inputs, call, pc, queue, cost, prev, actions, visited, path, ret,
                  pops, pushed, fired, run, first >>

\* The while test with <= for <.
InBudgetInclusive == clock <= limit

\* The while test.
InBudget == clock < limit

\* Timeout that hands back the route to the best frontier entry.
TimeoutPartial ==
  /\ pc = "loop"
  /\ ~(clock < limit)
  /\ pc' = "done"
  /\ fired' = TRUE
  /\ path' = IF queue # << >>
             THEN LET e == queue[heappop(queue)]
                  IN  Backtrack(prev[e[2]], << << e[2], e[3] >> >>)
             ELSE << >>
  /\ ret' = IF path' # << >> THEN "path" ELSE "None"
  /\ UNCHANGED << inputs, call, clock, queue, cost, prev, actions, visited,
                  pops, pushed, run, first >>

\* Lines 155, 178-182: the while test fails; path is returned if non-empty.
Timeout ==
  /\ pc = "loop"
  /\ ~InBudget
  /\ pc' = "done"
  /\ fired' = TRUE
  /\ ret' = IF path # << >> THEN "path" ELSE "None"
  /\ UNCHANGED << inputs, call, clock, queue, cost, prev, actions, visited, path,
                  pops, pushed, run, first >>

\* Line 157 on an empty heap: heappop raises IndexError out of search.
PopEmpty ==
  /\ pc = "loop"
  /\ InBudget
  /\ queue = << >>
  /\ pc' = "done"
  /\ ret' = "IndexError"
  /\ UNCHANGED << inputs, call, clock, queue, cost, prev, actions, visited, path,
                  pops, pushed, fired, run, first >>

\* Lines 157-165, 178-180: the popped state is a goal; the path is built and
\* returned.
PopGoal ==
  /\ pc = "loop"
  /\ InBudget
  /\ queue # << >>
  /\ Len(pops) < MaxPops
  /\ LET i == heappop(queue)
         e == queue[i]
     IN  /\ is_goal(e[2])
         /\ queue' = Remove(queue, i)
         /\ pops' = Append(pops, e[2])
         /\ path' = BuildPath(e[2], e[3])
         /\ ret' = IF path' # << >> THEN "path" ELSE "None"
         /\ pc' = "done"
  /\ UNCHANGED << inputs, call, clock, cost, prev, actions, visited, pushed, fired,
                  run, first >>

\* The bookkeeping b as it reads once the State object stored with items
\* `old` holds the items `new`: the object is the same in every container.
Reseat(b, old, new) ==
  IF new = old THEN b
  ELSE LET re(x) == IF x = old THEN new ELSE x
           keys == { re(x) : x \in DOMAIN b.cost }
           was(s) == CHOOSE x \in DOMAIN b.cost : re(x) = s
       IN  [queue |-> [k \in DOMAIN b.queue |->
                         << b.queue[k][1], re(b.queue[k][2]), b.queue[k][3] >>],
            cost |-> [s \in keys |-> b.cost[was(s)]],
            prev |-> [s \in keys |->
                        IF b.prev[was(s)] = << >> THEN << >>
                        ELSE << re(b.prev[was(s)][1]) >>],
            actions |-> [s \in keys |-> b.actions[was(s)]],
            visited |-> [k \in DOMAIN b.visited |-> re(b.visited[k])],
            pushed |-> b.pushed]

\* Lines 157-175: the popped state is no goal; its neighbours are relaxed.
Expand ==
  /\ pc = "loop"
  /\ InBudget
  /\ queue # << >>
  /\ Len(pops) < MaxPops
  /\ LET i == heappop(queue)
         e == queue[i]
         b == Reseat(Relax([queue |-> Remove(queue, i), cost |-> cost,
                            prev |-> prev, actions |-> actions,
                            visited |-> visited, pushed |-> pushed],
                           graph(e[2]), 1, e[1], e[2]),
                     e[2], graph_leaves(e[2]))
     IN  /\ ~is_goal(e[2])
         /\ pops' = Append(pops, e[2])
         /\ queue' = b.queue
         /\ cost' = b.cost
         /\ prev' = b.prev
         /\ actions' = b.actions
         /\ visited' = b.visited
         /\ pushed' = b.pushed
  /\ UNCHANGED << inputs, call, clock, pc, path, ret, fired, run, first >>

\* A repeated invocation that finds the visited list and the cost map of the
\* one before (bookkeeping kept outside the function body).
ReinvokeStale ==
  /\ pc = "done"
  /\ run = 1
  /\ run' = 2
  /\ first' = [ret |-> ret, path |-> path, pops |-> pops, fired |-> fired]
  /\ clock' = 0
  /\ pc' = "loop"
  /\ queue' = Fresh(state).queue
  /\ prev' = Fresh(state).prev
  /\ actions' = Fresh(state).actions
  /\ pushed' = Fresh(state).pushed
  /\ path' = << >>
  /\ ret' = "pending"
  /\ pops' = << >>
  /\ fired' = FALSE
  /\ UNCHANGED << inputs, call, cost, visited >>

\* search is invoked again on the same inputs (lines 140-152 run afresh).
Reinvoke ==
  /\ pc = "done"
  /\ run = 1
  /\ run' = 2
  /\ first' = [ret |-> ret, path |-> path, pops |-> pops, fired |-> fired]
  /\ clock' = 0
  /\ pc' = "loop"
  /\ queue' = Fresh(state).queue
  /\ cost' = Fresh(state).cost
  /\ prev' = Fresh(state).prev
  /\ actions' = Fresh(state).actions
  /\ visited' = Fresh(state).visited
  /\ pushed' = Fresh(state).pushed
  /\ path' = << >>
  /\ ret' = "pending"
  /\ pops' = << >>
  /\ fired' = FALSE
  /\ UNCHANGED << inputs, call >>

Next == Tick \/ Timeout \/ PopEmpty \/ PopGoal \/ Expand \/ Reinvoke

Spec == Init /\ [][Next]_vars

TypeOK ==
  /\ pc \in {"loop", "done", "idle"}
  /\ ret \in {"pending", "path", "None", "IndexError"}
  /\ clock \in 0 .. MaxClock

\* ------------------------------------------- the compiled functions alone
\* Largest quantity of the items varied together in a state handed to a
\* compiled function.
MaxQty == 2
\* Largest quantity of the one item varied in an otherwise empty state.
MaxSpike == 9

\* Recipe tables for the direct calls: absent Consumes, absent Requires, both
\* present, several Consumes entries, an item both produced and consumed.
PureRecipeSets ==
  << << Recipe("craft plank",
               [Consumes |-> [wood |-> 1], Produces |-> [plank |-> 4], Time |-> 1]),
        Recipe("punch for wood", [Produces |-> [wood |-> 1], Time |-> 4]),
        Recipe("bench for rail",
               [Requires |-> [bench |-> TRUE], Produces |-> [rail |-> 1],
                Time |-> 2]) >>,
     << Recipe("split wood",
               [Consumes |-> [wood |-> 2, rail |-> 1],
                Produces |-> [wood |-> 1, bench |-> 1], Time |-> 3]),
        Recipe("plank at bench",
               [Requires |-> [bench |-> TRUE, rail |-> TRUE],
                Consumes |-> [plank |-> 1], Produces |-> [plank |-> 2],
                Time |-> 1]) >> >>

\* Goal maps for the direct calls.
PureGoalMaps ==
  << <<>>, [plank |-> 1], [wood |-> 2, bench |-> 1], [rail |-> 2, cart |-> 0] >>

\* The states handed to the compiled functions: wood, plank, bench and rail
\* varied together, or one item of the catalog alone.
PureStates ==
  { MakeState([wood |-> w, plank |-> p, bench |-> b, rail |-> r]) :
       w \in 0 .. MaxQty, p \in 0 .. MaxQty, b \in 0 .. MaxQty, r \in 0 .. MaxQty }
  \cup
  { [MakeState(<<>>) EXCEPT ![i] = q] : i \in Items, q \in 0 .. MaxSpike }

searching ==
  << limit, clock, pc, queue, cost, prev, actions, visited, path, ret, pops,
     pushed, fired, run, first >>

PureInit ==
  /\ \E k \in DOMAIN PureRecipeSets : all_recipes = PureRecipeSets[k]
  /\ \E k \in DOMAIN PureGoalMaps : goal = PureGoalMaps[k]
  /\ state \in PureStates
  /\ limit = 0
  /\ clock = 0
  /\ pc = "idle"
  /\ queue = Fresh(state).queue
  /\ cost = Fresh(state).cost
  /\ prev = Fresh(state).prev
  /\ actions = Fresh(state).actions
  /\ visited = Fresh(state).visited
  /\ pushed = Fresh(state).pushed
  /\ path = << >>
  /\ ret = "pending"
  /\ pops = << >>
  /\ fired = FALSE
  /\ run = 1
  /\ first = [ret |-> "pending", path |-> << >>, pops |-> << >>, fired |-> FALSE]
  /\ call = [fn |-> "none"]

\* r.check(state) for the k-th recipe.
CallCheck ==
  /\ call.fn = "none"
  /\ \E k \in DOMAIN all_recipes :
        call' = [fn |-> "check", k |-> k, arg |-> state,
                 out |-> check(all_recipes[k].rule, state)]
  /\ UNCHANGED << all_recipes, goal, state, searching >>

\* r.effect(state) for the k-th recipe.
CallEffect ==
  /\ call.fn = "none"
  /\ \E k \in DOMAIN all_recipes :
        /\ call' = [fn |-> "effect", k |-> k, arg |-> state,
                    out |-> effect(all_recipes[k].rule, state)]
        /\ state' = effect_leaves(all_recipes[k].rule, state)
  /\ UNCHANGED << all_recipes, goal, searching >>

\* is_goal(state)
CallIsGoal ==
  /\ call.fn = "none"
  /\ call' = [fn |-> "is_goal", arg |-> state, out |-> is_goal(state)]
  /\ UNCHANGED << all_recipes, goal, state, searching >>

\* heuristic(state)
CallHeuristic ==
  /\ call.fn = "none"
  /\ call' = [fn |-> "heuristic", arg |-> state, out |-> heuristic(state)]
  /\ UNCHANGED << all_recipes, goal, state, searching >>

\* list(graph(state)), a first time and then once more on the same object.
CallGraph ==
  /\ call.fn \in {"none", "graph"}
  /\ call' = [fn |-> IF call.fn = "none" THEN "graph" ELSE "graph again",
              arg |-> state, out |-> graph(state),
              before |-> IF call.fn = "none" THEN << >> ELSE call.out]
  /\ state' = graph_leaves(state)
  /\ UNCHANGED << all_recipes, goal, searching >>

PureNext == CallCheck \/ CallEffect \/ CallIsGoal \/ CallHeuristic \/ CallGraph

PureSpec == PureInit /\ [][PureNext]_vars

\* The compiled functions called directly, or search run: every use of a
\* State object.
FrameSpec == (Init \/ PureInit) /\ [][Next \/ PureNext]_vars

\* ------------------------------------------------------------------ claims
\* The recipe of all_recipes named `name` takes state `prior` to state `next`:
\* its check holds in prior and its effect on prior is next.
LegalStep(prior, name, next) ==
  \E k \in DOMAIN all_recipes :
     /\ all_recipes[k].name = name
     /\ check(all_recipes[k].rule, prior)
     /\ effect(all_recipes[k].rule, prior) = next

\* C1: whenever search returns a plan, every pair after the first names a
\* recipe of the recipe set whose precondition holds in the state of the pair
\* before it and whose effect on that state is the pair's own state.
C1_PlanStepsLegal ==
  ret = "path" =>
     \A i \in 2 .. Len(path) :
        LegalStep(path[i - 1][1], path[i][2], path[i][1])

\* A plan of at least two recipe steps has been returned.
C1_Witness == ret = "path" /\ Len(path) >= 3

\* C2: whenever search returns a plan, its first pair is (start, None) and
\* its last state satisfies the goal; when the start itself satisfies the
\* goal the plan is exactly [(start, None)] and nothing was expanded: the
\* start is the only state popped and the only state ever pushed.
C2_PlanEnds ==
  ret = "path" =>
     /\ path # << >>
     /\ path[1] = << state, None >>
     /\ is_goal(path[Len(path)][1])
     /\ is_goal(state) =>
           /\ path = << << state, None >> >>
           /\ pops = << state >>
           /\ pushed = << state >>

\* A plan was returned for a start state that already satisfies a non-empty
\* goal, under a positive budget.
C2_Witness ==
  /\ ret = "path"
  /\ is_goal(state)
  /\ DOMAIN goal # {}
  /\ limit > 0

\* C3: one invocation ends in a plan or in None, never in an exception.
C3_NoException == pc = "done" => ret \in {"path", "None"}

\* C4: when the while test fails, search ends with None and no path, also
\* when a goal-satisfying state is waiting in the frontier.
C4_TimeoutReturnsNone == fired => (pc = "done" /\ ret = "None" /\ path = << >>)

\* The deadline fired after at least one expansion, with a goal-satisfying
\* state admitted to the frontier and not yet popped.
C4_Witness ==
  /\ fired
  /\ Len(pops) >= 1
  /\ \E k \in DOMAIN queue : is_goal(queue[k][2])

\* C5: with a budget of zero or less no loop iteration runs (nothing is
\* popped, nothing beyond the seeded start is pushed or recorded) and the
\* invocation ends with None, also for a start state that satisfies the goal.
C5_NoBudgetNoIteration ==
  limit <= 0 =>
     /\ pops = << >>
     /\ pushed = << state >>
     /\ DOMAIN cost = {state}
     /\ path = << >>
     /\ pc = "done" => ret = "None"

\* A search with no budget has ended on a start state satisfying the goal.
C5_Witness == limit <= 0 /\ pc = "done" /\ is_goal(state) /\ ret = "None"

\* The records of every state recorded so far stay as they are in the step.
RecordsKept ==
  \A s \in DOMAIN cost :
     /\ s \in DOMAIN cost' /\ cost'[s] = cost[s]
     /\ s \in DOMAIN prev' /\ prev'[s] = prev[s]
     /\ s \in DOMAIN actions' /\ actions'[s] = actions[s]

NoDuplicates(list) ==
  \A i, j \in DOMAIN list : list[i] = list[j] => i = j

\* C6: within one invocation every state is pushed at most once, it is in
\* visited from the moment it is pushed, and the cost, predecessor and action
\* recorded for it never change afterwards.
C6_VisitedOnce ==
  [][run' = run =>
        /\ RecordsKept
        /\ NoDuplicates(pushed')
        /\ visited' = pushed'
        /\ DOMAIN cost' = { pushed'[k] : k \in DOMAIN pushed' }]_vars

\* A strictly cheaper route to a recorded state was met while expanding a
\* popped state, and the record was kept.
C6_Witness ==
  /\ pc = "loop"
  /\ \E k \in DOMAIN pops, s \in DOMAIN cost :
        \E n \in DOMAIN graph(pops[k]) :
           /\ graph(pops[k])[n][2] = s
           /\ Plus(cost[pops[k]], graph(pops[k])[n][3]) < cost[s]

\* r.cost of the recipe named `name`.
CostOf(name) ==
  LET k == CHOOSE k \in DOMAIN all_recipes : all_recipes[k].name = name
  IN  all_recipes[k].cost

\* The sum of the recipe costs along the predecessor chain of s.
RECURSIVE RouteCost(_)
RouteCost(s) ==
  IF prev[s] = << >> THEN 0
  ELSE RouteCost(prev[s][1]) + CostOf(actions[s])

\* C7: the cost recorded for every state is the sum of the recipe costs along
\* its predecessor chain, and every state admitted by the loop sits in the
\* frontier with priority = recorded cost + heuristic(state).
C7_RecordedCostIsRouteCost ==
  /\ \A s \in DOMAIN cost : cost[s] = RouteCost(s)
  /\ \A k \in DOMAIN queue :
        queue[k][2] # state =>
           queue[k][1] = Plus(cost[queue[k][2]], heuristic(queue[k][2]))

\* The pops that were followed by an expansion: all of them, but the last one
\* when it ended the search with a plan.
Expanded == IF ret = "path" THEN SubSeq(pops, 1, Len(pops) - 1) ELSE pops

\* C8: no state other than the seeded start on which the heuristic is
\* infinite is ever popped and expanded.
C8_InfNeverExpanded ==
  \A k \in DOMAIN Expanded :
     Expanded[k] # state => heuristic(Expanded[k]) # inf

IsPrefix(a, b) == Len(a) <= Len(b) /\ SubSeq(b, 1, Len(a)) = a

\* C9: a second invocation on the same inputs in which, as in the first, the
\* while test never fails pops the states the first one popped, in the same
\* order, and ends as the first did: same outcome, same plan.
C9_Deterministic ==
  (run = 2 /\ ~fired /\ ~first.fired) =>
     /\ IsPrefix(pops, first.pops)
     /\ pc = "done" =>
           /\ pops = first.pops
           /\ ret = first.ret
           /\ path = first.path

\* Both invocations returned a plan of at least one step without the
\* deadline firing, after popping entries of equal priority.
C9_Witness ==
  /\ run = 2
  /\ pc = "done"
  /\ ~fired /\ ~first.fired
  /\ ret = "path"
  /\ Len(path) >= 2
  /\ \E i, j \in DOMAIN pushed :
        /\ i # j
        /\ Plus(cost[pushed[i]], heuristic(pushed[i]))
             = Plus(cost[pushed[j]], heuristic(pushed[j]))

\* The total cost of a plan: the costs of the recipes it names.
RECURSIVE PathCost(_, _)
PathCost(p, i) ==
  IF i < 2 THEN 0 ELSE PathCost(p, i - 1) + CostOf(p[i][2])

PlanCost == PathCost(path, Len(path))

\* Scenario C: two recipes of different cost produce a common item.
TwoProducers ==
  \E i, j \in DOMAIN all_recipes :
     /\ all_recipes[i].cost # all_recipes[j].cost
     /\ DOMAIN all_recipes[i].rule.Produces
          \cap DOMAIN all_recipes[j].rule.Produces # {}

\* State s, reached along a chain at cumulative cost acc, was not first marked
\* visited via a higher-cost route.
NotDearer(s, acc) == s \in DOMAIN cost => cost[s] <= acc

\* Some recipe chain continues from s (reached at cumulative cost acc) to a
\* goal-satisfying state at a total cost below c, with no state of it first
\* marked visited via a higher-cost route.  mode "recorded": no more is asked;
\* mode "unpruned": the heuristic is finite on the states of the chain;
\* mode "any": the recorded costs are not looked at.
RECURSIVE ChainBelow(_, _, _, _)
ChainBelow(s, acc, c, mode) ==
  /\ acc < c
  /\ mode # "any" => NotDearer(s, acc)
  /\ mode = "unpruned" => heuristic(s) # inf
  /\ \/ is_goal(s)
     \/ \E k \in DOMAIN graph(s) :
           ChainBelow(graph(s)[k][2], acc + graph(s)[k][3], c, mode)

\* The same for the chains that begin at the start state.
ChainBelowFromStart(c, mode) ==
  /\ 0 < c
  /\ mode # "any" => NotDearer(state, 0)
  /\ \/ is_goal(state)
     \/ \E k \in DOMAIN graph(state) :
           ChainBelow(graph(state)[k][2], graph(state)[k][3], c, mode)

\* The returned plan is itself a chain on which no state was first marked
\* visited via a higher-cost route.
PlanNotDearer ==
  \A i \in DOMAIN path : NotDearer(path[i][1], PathCost(path, i))

PlanUnpruned == \A i \in 2 .. Len(path) : heuristic(path[i][1]) # inf

\* C10 as stated: in scenario C the cost of the returned plan is the minimum
\* over the chains to a goal on which no state was first marked visited via a
\* higher-cost route: the plan is such a chain and none of them is cheaper.
C10_MinOverRecordedChains ==
  (ret = "path" /\ TwoProducers) =>
     /\ PlanNotDearer
     /\ ~ChainBelowFromStart(PlanCost, "recorded")

\* C10 amended: none of those chains on which the heuristic is finite on
\* every state after the start is cheaper than the returned plan, and a plan
\* whose states after the start all have finite heuristic is such a chain.
C10_MinOverUnprunedChains ==
  (ret = "path" /\ TwoProducers) =>
     /\ ~ChainBelowFromStart(PlanCost, "unpruned")
     /\ PlanUnpruned => PlanNotDearer

\* A plan of two steps was returned in scenario C although a cheaper chain
\* to a goal exists, through a state first marked visited at a higher cost.
C10_Witness ==
  /\ ret = "path"
  /\ TwoProducers
  /\ Len(path) >= 3
  /\ PlanUnpruned
  /\ ChainBelowFromStart(PlanCost, "any")
  /\ \E s \in DOMAIN cost : RouteCost(s) = cost[s] /\ cost[s] < inf
        /\ \E k \in DOMAIN pops : \E n \in DOMAIN graph(pops[k]) :
              /\ graph(pops[k])[n][2] = s
              /\ Plus(cost[pops[k]], graph(pops[k])[n][3]) < cost[s]

\* dict.get(i, 0)
Get(m, i) == IF i \in DOMAIN m THEN m[i] ELSE 0

\* rule.get('Consumes', {})
ConsumesOf(rule) == IF "Consumes" \in DOMAIN rule THEN rule.Consumes ELSE << >>

\* C11: for a recipe with Consumes C and Produces P called on a state S on
\* which its precondition holds, effect(S) has the items of S, in the catalog
\* order, and effect(S)[i] = S[i] + P.get(i, 0) - C.get(i, 0) for every item.
C11_EffectArithmetic ==
  call.fn = "effect" =>
     LET rule == all_recipes[call.k].rule
     IN  check(rule, call.arg) =>
            /\ DOMAIN call.out = DOMAIN call.arg
            /\ \A k \in DOMAIN Catalog : key(call.out)[k][1] = key(call.arg)[k][1]
            /\ \A i \in Items :
                  call.out[i] = call.arg[i] + Get(rule.Produces, i)
                                  - Get(ConsumesOf(rule), i)

\* effect was applied, its precondition holding, for a recipe that both
\* produces and consumes one item.
C11_Witness ==
  /\ call.fn = "effect"
  /\ check(all_recipes[call.k].rule, call.arg)
  /\ DOMAIN all_recipes[call.k].rule.Produces
       \cap DOMAIN ConsumesOf(all_recipes[call.k].rule) # {}

\* C12: the predicate compiled from goal map M returns true on state S exactly
\* when S[i] >= M[i] for every item i of M (so always for an empty M), and the
\* state it was called on is as it was before the call.
C12_GoalPredicate ==
  call.fn = "is_goal" =>
     /\ call.out = (\A i \in DOMAIN goal : call.arg[i] >= goal[i])
     /\ DOMAIN goal = {} => call.out = TRUE
     /\ state = call.arg

\* The predicate of a goal map of two items was called on a state that holds
\* exactly the minimum of one of them, and returned true.
C12_Witness ==
  /\ call.fn = "is_goal"
  /\ call.out = TRUE
  /\ Cardinality(DOMAIN goal) = 2
  /\ \E i \in DOMAIN goal : call.arg[i] = goal[i]

\* rule.get('Requires', {})
RequiresOf(rule) == IF "Requires" \in DOMAIN rule THEN rule.Requires ELSE << >>

\* The precondition as stated: every Consumes amount is held and every
\* Requires item is present; an absent clause asks nothing.
Precondition(rule, S) ==
  /\ \A item \in DOMAIN ConsumesOf(rule) : S[item] >= ConsumesOf(rule)[item]
  /\ \A item \in DOMAIN RequiresOf(rule) : S[item] > 0

\* The positions in all_recipes of the recipes whose precondition holds in S.
ValidIn(S) ==
  { k \in DOMAIN all_recipes : Precondition(all_recipes[k].rule, S) }

\* The n-th of them in declared order.
NthValidIn(S, n) ==
  CHOOSE k \in ValidIn(S) : Cardinality({ j \in ValidIn(S) : j < k }) = n - 1

\* C13: check returns true exactly when the precondition holds; expanding S
\* yields, in declared order, one triple (name, effect(S), cost) for each
\* recipe whose precondition holds in S and nothing else; expanding the same
\* state once more yields the same triples.
C13_GraphExpansion ==
  /\ call.fn = "check" =>
        call.out = Precondition(all_recipes[call.k].rule, call.arg)
  /\ call.fn \in {"graph", "graph again"} =>
        /\ Len(call.out) = Cardinality(ValidIn(call.arg))
        /\ \A n \in DOMAIN call.out :
              LET r == all_recipes[NthValidIn(call.arg, n)]
              IN  call.out[n] = << r.name, effect(r.rule, call.arg), r.cost >>
  /\ call.fn = "graph again" => call.out = call.before

\* A state was expanded twice under a recipe set of which some recipes are
\* valid in it, one of them with a Requires clause, and some are not.
C13_Witness ==
  /\ call.fn = "graph again"
  /\ Len(call.out) >= 1
  /\ Len(call.out) < Len(all_recipes)
  /\ \E k \in ValidIn(call.arg) : "Requires" \in DOMAIN all_recipes[k].rule

ToolItems == { tools[t] : t \in DOMAIN tools }

CappedItems == DOMAIN materials_with_heuristic_value

\* C14: heuristic(S) is infinite if some tool is held more than once or some
\* capped material above its cap, and 0 otherwise (so 0 at tool = 1 and at
\* material = cap); the quantity of an item that is neither does not matter.
C14_HeuristicValue ==
  call.fn = "heuristic" =>
     /\ call.out =
          IF \/ \E i \in ToolItems : call.arg[i] > 1
             \/ \E i \in CappedItems :
                   call.arg[i] > materials_with_heuristic_value[i]
          THEN inf ELSE 0
     /\ (\A i \in ToolItems : call.arg[i] <= 1)
          /\ (\A i \in CappedItems :
                 call.arg[i] <= materials_with_heuristic_value[i])
          => call.out = 0
     /\ \A i \in Items \ (ToolItems \cup CappedItems), q \in 0 .. MaxSpike :
           heuristic([call.arg EXCEPT ![i] = q]) = call.out

\* heuristic returned 0 on a state holding one bench (a tool), one wood (its
\* cap) and several rails (neither tool nor capped).
C14_Witness ==
  /\ call.fn = "heuristic"
  /\ call.out = 0
  /\ call.arg["bench"] = 1
  /\ call.arg["wood"] = 1
  /\ call.arg["rail"] >= 2

NonNegative(s) == \A i \in DOMAIN s : s[i] >= 0

\* C15: when no quantity of the start state is negative, no state in the
\* frontier, in the cost, predecessor or action map, in the visited list or
\* in the returned plan holds a negative quantity.
C15_QuantitiesNonNegative ==
  NonNegative(state) =>
     /\ \A k \in DOMAIN queue : NonNegative(queue[k][2])
     /\ \A s \in DOMAIN cost \cup DOMAIN prev \cup DOMAIN actions :
           NonNegative(s)
     /\ \A s \in DOMAIN prev : prev[s] # << >> => NonNegative(prev[s][1])
     /\ \A k \in DOMAIN visited : NonNegative(visited[k])
     /\ \A k \in DOMAIN path : NonNegative(path[k][1])

\* A plan was returned one of whose states has used up an item the start
\* state held.
C15_Witness ==
  /\ ret = "path"
  /\ \E k \in DOMAIN path, i \in Items : path[k][1][i] = 0 /\ state[i] > 0

DirectCalls ==
  {"check", "effect", "is_goal", "heuristic", "graph", "graph again"}

\* C16: a direct call of a precondition, an effect, the goal predicate, the
\* heuristic or an expansion leaves its argument with the items it had; and in
\* a step of search every state in the visited list stays as it is, every key
\* of the cost, predecessor and action maps stays a key with the same
\* predecessor, and every entry of the frontier that was not popped stays in
\* it with the same state.
C16_StatesNeverMutated ==
  [][/\ (call' # call /\ call'.fn \in DirectCalls) =>
           (call'.arg = state /\ state' = state)
     /\ (call.fn = "search" /\ run' = run) =>
           /\ \A k \in DOMAIN visited :
                 k \in DOMAIN visited' /\ visited'[k] = visited[k]
           /\ \A s \in DOMAIN cost :
                 /\ s \in DOMAIN cost' \cap DOMAIN prev' \cap DOMAIN actions'
                 /\ prev'[s] = prev[s]
           /\ \A k \in DOMAIN queue :
                 \/ \E j \in DOMAIN queue' : queue'[j] = queue[k]
                 \/ /\ pops' = Append(pops, queue[k][2])
                    /\ k = heappop(queue)]_vars

\* An effect that changes quantities was applied to a state on which its
\* precondition holds.
C16_Witness ==
  /\ call.fn = "effect"
  /\ check(all_recipes[call.k].rule, call.arg)
  /\ call.out # call.arg
  /\ state = call.arg

\* C17: the frontier never holds two entries with the same state, so of any
\* two of its entries one is below the other by priority or by the order of
\* the states, and the comparison of their actions is never reached.
C17_FrontierStatesDistinct ==
  call.fn = "search" =>
    \A i, j \in DOMAIN queue :
       i # j => /\ queue[i][2] # queue[j][2]
                /\ EntryLt(queue[i], queue[j]) \/ EntryLt(queue[j], queue[i])

\* Two frontier entries tie on priority, one of them the result of a recipe,
\* and a state was reached a second time after being pushed.
C17_Witness ==
  /\ call.fn = "search"
  /\ \E i, j \in DOMAIN queue :
        i # j /\ queue[i][1] = queue[j][1] /\ queue[i][3] # None
  /\ \E k \in DOMAIN visited :
        \E p \in DOMAIN pops : \E r \in DOMAIN all_recipes :
           /\ pops[p] # visited[k]
           /\ prev[visited[k]] # << pops[p] >>
           /\ check(all_recipes[r].rule, pops[p])
           /\ effect(all_recipes[r].rule, pops[p]) = visited[k]

\* The priority a recorded state was pushed with: 0 for the start (line 147),
\* its recorded cost plus its heuristic for any other (lines 171, 173).
PushedPriority(s) == IF s = state THEN 0 ELSE Plus(cost[s], heuristic(s))

PositiveCosts == \A r \in DOMAIN all_recipes : all_recipes[r].cost > 0

\* C18: with every recipe cost positive, an entry popped in a search run has
\* priority at least that of every entry popped before it, and once it is
\* expanded (or returned as the goal) every entry of the frontier, those just
\* pushed included, has priority at least that of the popped entry.
C18_PopsNonDecreasing ==
  [][(call.fn = "search" /\ run' = run /\ pops' # pops /\ PositiveCosts) =>
       LET x == pops'[Len(pops')]
           e == CHOOSE q \in { queue[k] : k \in DOMAIN queue } : q[2] = x
       IN  /\ e[1] = PushedPriority(x)
           /\ e[1] >= 0
           /\ \A p \in DOMAIN pops : PushedPriority(pops[p]) <= e[1]
           /\ \A k \in DOMAIN queue' : queue'[k][1] >= e[1]]_vars

\* A goal was popped third or later at a priority above that of the entry
\* popped before it, with entries of higher priority left in the frontier.
C18_Witness ==
  /\ call.fn = "search"
  /\ PositiveCosts
  /\ ret = "path"
  /\ Len(pops) >= 3
  /\ PushedPriority(pops[Len(pops) - 1]) < PushedPriority(pops[Len(pops)])
  /\ \E k \in DOMAIN queue : queue[k][1] > PushedPriority(pops[Len(pops)])

\* Following predecessor links from s ends at the start, whose predecessor is
\* None, through recorded states only and without meeting a state of `seen`.
RECURSIVE ReachesStart(_, _)
ReachesStart(s, seen) ==
  /\ s \in DOMAIN prev
  /\ s \notin seen
  /\ IF prev[s] = << >> THEN s = state
     ELSE ReachesStart(prev[s][1], seen \cup {s})

\* C19: at the head of every loop iteration the cost, predecessor and action
\* maps have the states of the visited list as their common key set, and the
\* predecessor links from any recorded state lead to the start without
\* repeating a state.
C19_LinksReachStart ==
  (call.fn = "search" /\ pc = "loop") =>
    /\ DOMAIN cost = { visited[k] : k \in DOMAIN visited }
    /\ DOMAIN prev = DOMAIN cost
    /\ DOMAIN actions = DOMAIN cost
    /\ \A s \in DOMAIN cost : ReachesStart(s, {})

\* At a loop head some recorded state is three or more links from the start.
C19_Witness ==
  /\ call.fn = "search"
  /\ pc = "loop"
  /\ Len(visited) >= 4
  /\ \E s \in DOMAIN prev :
        /\ prev[s] # << >>
        /\ prev[prev[s][1]] # << >>
        /\ prev[prev[s][1]][1] # state

====
